---- MODULE Spec2Model ----
(***************************************************************************)
(* APER decoder internals of hampi (codecs/src/aper/decode/                *)
(* decode_internal.rs): the length determinants and whole numbers of       *)
(* X.691 sections 10.5 - 10.9, decoded from a bit cursor over a byte slice.*)
(*                                                                         *)
(* The cursor type AperCodecData (decode_bool, decode_bits_as_integer,     *)
(* decode_align, advance_maybe_err) is not part of the sources at hand; it *)
(* is modelled from section 4.1 of the specification.                      *)
(***************************************************************************)
EXTENDS Integers, Sequences, FiniteSets, TLC

VARIABLES
    bits,       \* AperCodecData: the buffer, a sequence of octets
    offset,     \* AperCodecData: the cursor, in bits from the buffer's start
    last,       \* the last call on the cursor and what it returned
    panicked,   \* TRUE once a call has panicked (the process is gone)
    source      \* the length an encoded buffer was produced from, or -1

vars == <<bits, offset, last, panicked, source>>

(***************************************************************************)
(* Bounds of the model.                                                    *)
(***************************************************************************)
\* Longest buffer, in octets.
MaxBytes == 6
\* The round trip is tried on every length 0 .. SmallRun and on LengthSamples.
SmallRun == 130

(***************************************************************************)
(* i128 values.  TLC's integers are 32 bits wide and a read of five octets *)
(* does not fit, so a value v is kept as two limbs, v = hi * 2^28 + lo     *)
(* with 0 <= lo < 2^28.  The model never reads more than 56 bits at once,  *)
(* far from the 128 bits of i128.                                          *)
(***************************************************************************)
Base == 2^28

Norm(hi, t) == [hi |-> hi + (t \div Base), lo |-> t % Base]

FromInt(k) == Norm(0, k)

\* v + k for a small k of either sign
AddInt(v, k) == Norm(v.hi, v.lo + k)

\* only used on values known to be small (lengths)
ToInt(v) == v.hi * Base + v.lo

Zero == FromInt(0)

(***************************************************************************)
(* Results.  Rust's Result<_, AperCodecError> is kind "ok" or "err"; a     *)
(* panic (unimplemented!, arithmetic overflow under overflow checks) is    *)
(* kind "panic": the call does not return.  off is the cursor afterwards.  *)
(***************************************************************************)
Ok(off, v) == [off |-> off, kind |-> "ok", err |-> "", val |-> v, calls |-> <<>>]

Err(off, e) ==
    [off |-> off, kind |-> "err", err |-> e, val |-> Zero, calls |-> <<>>]

Panic(off, msg) ==
    [off |-> off, kind |-> "panic", err |-> msg, val |-> Zero, calls |-> <<>>]

\* calls is the record of the calls of decode_constrained_whole_number and
\* decode_constrained_length_detereminent made on the way to a result, in the
\* order they were entered: Entered puts the call that returns r in front of
\* those made inside it, After keeps the calls of a step that is done.
Entered(fn, lb, ub, r) ==
    [r EXCEPT !.calls = <<[fn |-> fn, lb |-> lb, ub |-> ub]>> \o @]

After(done, r) == [r EXCEPT !.calls = done.calls \o @]

\* the kinds of section 7 of the specification, for AperCodecError's messages
OutOfBits == "OutOfBits"

InvalidRange == "Range for the Integer Constraint is negative."

InvalidLengthMultiplier == "The value should be 1 to 4"

Unimplemented == "Lengths larger than 65536 are not supported yet."

SubtractOverflow == "attempt to subtract with overflow"

(***************************************************************************)
(* The bit cursor (specification, section 4.1).                            *)
(***************************************************************************)
bit_length(buf) == 8 * Len(buf)

\* bit i of the buffer, most significant bit of each octet first
BitAt(buf, i) == (buf[(i \div 8) + 1] \div 2^(7 - (i % 8))) % 2

RECURSIVE BitsAt(_, _, _)
\* the n <= 28 bits from off on, as an unsigned big-endian number
BitsAt(buf, off, n) ==
    IF n = 0 THEN 0
    ELSE IF n = 1 THEN BitAt(buf, off)
    ELSE LET h == n \div 2 IN
         BitsAt(buf, off, h) * 2^(n - h) + BitsAt(buf, off + h, n - h)

\* the n <= 56 bits from off on, as an unsigned big-endian number: the last
\* 28 bits are the low limb, the bits before them the high limb
load_be(buf, off, n) ==
    IF n <= 28 THEN [hi |-> 0, lo |-> BitsAt(buf, off, n)]
    ELSE [hi |-> BitsAt(buf, off, n - 28), lo |-> BitsAt(buf, off + n - 28, 28)]

decode_bool(buf, off) ==
    IF off + 1 > bit_length(buf) THEN Err(off, OutOfBits)
    ELSE Ok(off + 1, FromInt(BitAt(buf, off)))

decode_bits_as_integer(buf, off, n) ==
    IF off + n > bit_length(buf) THEN Err(off, OutOfBits)
    ELSE Ok(off + n, load_be(buf, off, n))

decode_align(buf, off) == Ok(((off + 7) \div 8) * 8, Zero)

advance_maybe_err(buf, off, n, must_succeed) ==
    IF off + n > bit_length(buf)
    THEN IF must_succeed THEN Err(off, OutOfBits) ELSE Ok(bit_length(buf), Zero)
    ELSE Ok(off + n, Zero)

(***************************************************************************)
(* decode_internal.rs.  data is (buf, off); a `?` returns the failed       *)
(* result, whose off is where the cursor was left.                         *)
(*                                                                         *)
(* checks is the build's overflow-checks setting: with it a usize          *)
(* subtraction below zero panics, without it the subtraction wraps.        *)
(***************************************************************************)
RECURSIVE decode_constrained_whole_number(_, _, _, _)
RECURSIVE decode_constrained_length_detereminent(_, _, _, _, _)

\* mutant: the test of the second bit is inverted
decode_unconstrained_length_determinent_swapped(buf, off) ==
    LET a == decode_align(buf, off) IN
    IF a.kind # "ok" THEN a ELSE
    LET first == decode_bool(buf, a.off) IN
    IF first.kind # "ok" THEN first ELSE
    IF first.val = FromInt(0)
    THEN decode_bits_as_integer(buf, first.off, 7)
    ELSE LET second == decode_bool(buf, first.off) IN
         IF second.kind # "ok" THEN second ELSE
         IF second.val = FromInt(0)
         THEN decode_bits_as_integer(buf, second.off, 14)
         ELSE LET length == decode_bits_as_integer(buf, second.off, 6) IN
              IF length.kind # "ok" THEN length ELSE
              IF ToInt(length.val) > 4 \/ ToInt(length.val) < 1
              THEN Err(length.off, InvalidLengthMultiplier)
              ELSE Ok(length.off, FromInt(ToInt(length.val) * 16384))

\* mutant: a multiplier of 0 is let through (length < 0 for length < 1)
decode_unconstrained_length_determinent_zero(buf, off) ==
    LET a == decode_align(buf, off) IN
    IF a.kind # "ok" THEN a ELSE
    LET first == decode_bool(buf, a.off) IN
    IF first.kind # "ok" THEN first ELSE
    IF first.val = FromInt(0)
    THEN decode_bits_as_integer(buf, first.off, 7)
    ELSE LET second == decode_bool(buf, first.off) IN
         IF second.kind # "ok" THEN second ELSE
         IF second.val = FromInt(1)
         THEN decode_bits_as_integer(buf, second.off, 14)
         ELSE LET length == decode_bits_as_integer(buf, second.off, 6) IN
              IF length.kind # "ok" THEN length ELSE
              IF ToInt(length.val) > 4 \/ ToInt(length.val) < 0
              THEN Err(length.off, InvalidLengthMultiplier)
              ELSE Ok(length.off, FromInt(ToInt(length.val) * 16384))

\* mutant: the block size is mistyped (16348 for 16384)
decode_unconstrained_length_determinent_typo(buf, off) ==
    LET a == decode_align(buf, off) IN
    IF a.kind # "ok" THEN a ELSE
    LET first == decode_bool(buf, a.off) IN
    IF first.kind # "ok" THEN first ELSE
    IF first.val = FromInt(0)
    THEN decode_bits_as_integer(buf, first.off, 7)
    ELSE LET second == decode_bool(buf, first.off) IN
         IF second.kind # "ok" THEN second ELSE
         IF second.val = FromInt(1)
         THEN decode_bits_as_integer(buf, second.off, 14)
         ELSE LET length == decode_bits_as_integer(buf, second.off, 6) IN
              IF length.kind # "ok" THEN length ELSE
              IF ToInt(length.val) > 4 \/ ToInt(length.val) < 1
              THEN Err(length.off, InvalidLengthMultiplier)
              ELSE Ok(length.off, FromInt(ToInt(length.val) * 16348))

decode_unconstrained_length_determinent(buf, off) ==
    LET a == decode_align(buf, off) IN
    IF a.kind # "ok" THEN a ELSE
    LET first == decode_bool(buf, a.off) IN
    IF first.kind # "ok" THEN first ELSE
    IF first.val = FromInt(0)
    THEN decode_bits_as_integer(buf, first.off, 7)
    ELSE LET second == decode_bool(buf, first.off) IN
         IF second.kind # "ok" THEN second ELSE
         IF second.val = FromInt(1)
         THEN decode_bits_as_integer(buf, second.off, 14)
         ELSE LET length == decode_bits_as_integer(buf, second.off, 6) IN
              IF length.kind # "ok" THEN length ELSE
              IF ToInt(length.val) > 4 \/ ToInt(length.val) < 1
              THEN Err(length.off, InvalidLengthMultiplier)
              ELSE Ok(length.off, FromInt(ToInt(length.val) * 16384))

\* mutant: the flag is read the other way round
decode_normally_small_length_determinent_inverted(buf, off) ==
    LET is_small == decode_bool(buf, off) IN
    IF is_small.kind # "ok" THEN is_small ELSE
    IF is_small.val = FromInt(1)
    THEN LET v == decode_bits_as_integer(buf, is_small.off, 6) IN
         IF v.kind # "ok" THEN v ELSE Ok(v.off, AddInt(v.val, 1))
    ELSE decode_unconstrained_length_determinent(buf, is_small.off)

decode_normally_small_length_determinent(buf, off) ==
    LET is_small == decode_bool(buf, off) IN
    IF is_small.kind # "ok" THEN is_small ELSE
    IF is_small.val = FromInt(0)
    THEN LET v == decode_bits_as_integer(buf, is_small.off, 6) IN
         IF v.kind # "ok" THEN v ELSE Ok(v.off, AddInt(v.val, 1))
    ELSE decode_unconstrained_length_determinent(buf, is_small.off)

\* mutant: when fewer bits remain than the length asks for, those are read
decode_unconstrained_whole_number_truncating(buf, off) ==
    LET length == decode_unconstrained_length_determinent(buf, off) IN
    IF length.kind # "ok" THEN length ELSE
    LET remaining == bit_length(buf) - length.off
        nbits == IF ToInt(length.val) * 8 > remaining THEN remaining
                 ELSE ToInt(length.val) * 8
    IN  decode_bits_as_integer(buf, length.off, nbits)

decode_unconstrained_whole_number(buf, off) ==
    LET length == decode_unconstrained_length_determinent(buf, off) IN
    IF length.kind # "ok" THEN length ELSE
    LET nbits == ToInt(length.val) * 8 IN
    decode_bits_as_integer(buf, length.off, nbits)

decode_semi_constrained_whole_number(buf, off, lb) ==
    LET length == decode_unconstrained_length_determinent(buf, off) IN
    IF length.kind # "ok" THEN length ELSE
    LET nbits == ToInt(length.val) * 8
        val == decode_bits_as_integer(buf, length.off, nbits)
    IN  IF val.kind # "ok" THEN val ELSE Ok(val.off, AddInt(val.val, lb))

RECURSIVE BitLen(_)
\* the number of binary digits of x >= 0
BitLen(x) == IF x = 0 THEN 0 ELSE 1 + BitLen(x \div 2)

\* i128::leading_zeros, for x >= 0
leading_zeros(x) == 128 - BitLen(x)

\* mutant: the octet count is not rounded up
bytes_needed_for_range_floor(range) ==
    LET bits_needed == 128 - leading_zeros(range)
        bytes_needed == bits_needed \div 8
    IN  bytes_needed

bytes_needed_for_range(range) ==
    LET bits_needed == 128 - leading_zeros(range)
        bytes_needed == bits_needed \div 8
    IN  IF bits_needed % 8 # 0 THEN bytes_needed + 1 ELSE bytes_needed

\* mutant: the arms of 3 and 4 bits meet at 7 | 8, not at 8 | 9
bits_for_range_early(range) ==
    CASE range \in 0..1 -> 0
      [] range = 2 -> 1
      [] range \in 3..4 -> 2
      [] range \in 5..7 -> 3
      [] range \in 8..16 -> 4
      [] range \in 17..32 -> 5
      [] range \in 33..64 -> 6
      [] range \in 65..128 -> 7
      [] range \in 129..255 -> 8

\* the match on `range as u8`, for 0 <= range < 256
bits_for_range(range) ==
    CASE range \in 0..1 -> 0
      [] range = 2 -> 1
      [] range \in 3..4 -> 2
      [] range \in 5..8 -> 3
      [] range \in 9..16 -> 4
      [] range \in 17..32 -> 5
      [] range \in 33..64 -> 6
      [] range \in 65..128 -> 7
      [] range \in 129..255 -> 8

\* mutant: an empty range (range = 0) is let through
decode_constrained_whole_number_empty(buf, off, lb, ub) ==
    Entered("constrained_whole_number", lb, ub,
    LET range == ub - lb + 1 IN
    IF range < 0 THEN Err(off, InvalidRange) ELSE
    LET value ==
          IF range < 256 THEN
              decode_bits_as_integer(buf, off, bits_for_range(range))
          ELSE IF range = 256 THEN
              LET a == decode_align(buf, off) IN
              IF a.kind # "ok" THEN a ELSE decode_bits_as_integer(buf, a.off, 8)
          ELSE IF range < 65536 THEN
              LET a == decode_align(buf, off) IN
              IF a.kind # "ok" THEN a ELSE decode_bits_as_integer(buf, a.off, 16)
          ELSE
              LET bytes_needed == bytes_needed_for_range(range)
                  length == decode_constrained_length_detereminent(
                                buf, off, 1, bytes_needed, TRUE)
              IN  IF length.kind # "ok" THEN length ELSE
                  LET nbits == (ToInt(length.val) + 1) * 8
                      a == decode_align(buf, length.off)
                  IN  IF a.kind # "ok" THEN After(length, a)
                      ELSE After(length, decode_bits_as_integer(buf, a.off, nbits))
    IN  IF value.kind # "ok" THEN value
        ELSE After(value, Ok(value.off, AddInt(value.val, lb))))

\* mutant: the octet-aligned forms are read without aligning first
decode_constrained_whole_number_unaligned(buf, off, lb, ub) ==
    Entered("constrained_whole_number", lb, ub,
    LET range == ub - lb + 1 IN
    IF range <= 0 THEN Err(off, InvalidRange) ELSE
    LET value ==
          IF range < 256 THEN
              decode_bits_as_integer(buf, off, bits_for_range(range))
          ELSE IF range = 256 THEN
              decode_bits_as_integer(buf, off, 8)
          ELSE IF range < 65536 THEN
              decode_bits_as_integer(buf, off, 16)
          ELSE
              LET bytes_needed == bytes_needed_for_range(range)
                  length == decode_constrained_length_detereminent(
                                buf, off, 1, bytes_needed, TRUE)
              IN  IF length.kind # "ok" THEN length ELSE
                  LET nbits == (ToInt(length.val) + 1) * 8
                      a == decode_align(buf, length.off)
                  IN  IF a.kind # "ok" THEN After(length, a)
                      ELSE After(length, decode_bits_as_integer(buf, a.off, nbits))
    IN  IF value.kind # "ok" THEN value
        ELSE After(value, Ok(value.off, AddInt(value.val, lb))))

\* mutant: the nested length is bounded by the range, not by its octets
decode_constrained_whole_number_by_range(buf, off, lb, ub) ==
    Entered("constrained_whole_number", lb, ub,
    LET range == ub - lb + 1 IN
    IF range <= 0 THEN Err(off, InvalidRange) ELSE
    LET value ==
          IF range < 256 THEN
              decode_bits_as_integer(buf, off, bits_for_range(range))
          ELSE IF range = 256 THEN
              LET a == decode_align(buf, off) IN
              IF a.kind # "ok" THEN a ELSE decode_bits_as_integer(buf, a.off, 8)
          ELSE IF range < 65536 THEN
              LET a == decode_align(buf, off) IN
              IF a.kind # "ok" THEN a ELSE decode_bits_as_integer(buf, a.off, 16)
          ELSE
              LET length == decode_constrained_length_detereminent(
                                buf, off, 1, range, TRUE)
              IN  IF length.kind # "ok" THEN length ELSE
                  LET nbits == (ToInt(length.val) + 1) * 8
                      a == decode_align(buf, length.off)
                  IN  IF a.kind # "ok" THEN After(length, a)
                      ELSE After(length, decode_bits_as_integer(buf, a.off, nbits))
    IN  IF value.kind # "ok" THEN value
        ELSE After(value, Ok(value.off, AddInt(value.val, lb))))

\* lb, ub and range are far from the ends of i128 in this model:
\* ub - lb + 1 does not overflow.  Nor does bytes_needed - 1 + 1 in the
\* nested call, whatever the build's overflow checks.
decode_constrained_whole_number(buf, off, lb, ub) ==
    Entered("constrained_whole_number", lb, ub,
    LET range == ub - lb + 1 IN
    IF range <= 0 THEN Err(off, InvalidRange) ELSE
    LET value ==
          IF range < 256 THEN
              decode_bits_as_integer(buf, off, bits_for_range(range))
          ELSE IF range = 256 THEN
              LET a == decode_align(buf, off) IN
              IF a.kind # "ok" THEN a ELSE decode_bits_as_integer(buf, a.off, 8)
          ELSE IF range < 65536 THEN
              LET a == decode_align(buf, off) IN
              IF a.kind # "ok" THEN a ELSE decode_bits_as_integer(buf, a.off, 16)
          ELSE
              LET bytes_needed == bytes_needed_for_range(range)
                  length == decode_constrained_length_detereminent(
                                buf, off, 1, bytes_needed, TRUE)
              IN  IF length.kind # "ok" THEN length ELSE
                  LET nbits == (ToInt(length.val) + 1) * 8
                      a == decode_align(buf, length.off)
                  IN  IF a.kind # "ok" THEN After(length, a)
                      ELSE After(length, decode_bits_as_integer(buf, a.off, nbits))
    IN  IF value.kind # "ok" THEN value
        ELSE After(value, Ok(value.off, AddInt(value.val, lb))))

\* lb and ub are usize.  ub - lb + 1 is computed in 64 bits: below zero the
\* subtraction panics under overflow checks and wraps without them, to 0
\* when ub - lb = -1 and to a number near 2^64 (not < 65536) otherwise.
decode_constrained_length_detereminent(buf, off, lb, ub, checks) ==
    Entered("constrained_length", lb, ub,
    IF ub < lb /\ checks THEN Panic(off, SubtractOverflow) ELSE
    LET wrapped == ub - lb + 1 < 0
        range == IF wrapped THEN 0 ELSE ub - lb + 1
    IN  IF ~wrapped /\ range < 65536
        THEN decode_constrained_whole_number(buf, off, lb, ub)
        ELSE Panic(off, Unimplemented))

(***************************************************************************)
(* The encoder of an unconstrained length determinant (specification,      *)
(* section 4.3: "Encode mirrors each branch, always choosing the shortest  *)
(* valid form"): one octet 0vvvvvvv below 128, two octets 11vvvvvv vvvvvvvv*)
(* below 16384, else an octet 10mmmmmm for m = min(L / 16384, 4) blocks of *)
(* 16384 followed by the determinant of what is left.                      *)
(***************************************************************************)
RECURSIVE encode_unconstrained_length_determinent(_)
encode_unconstrained_length_determinent(L) ==
    IF L < 128 THEN <<L>>
    ELSE IF L < 16384 THEN <<192 + (L \div 256), L % 256>>
    ELSE LET m == IF L \div 16384 > 4 THEN 4 ELSE L \div 16384 IN
         <<128 + m>> \o encode_unconstrained_length_determinent(L - m * 16384)

(***************************************************************************)
(* The inputs of the model.                                                *)
(***************************************************************************)
\* Buffers are the empty one and the first MaxBytes octets of these strings.  The first four are the
\* buffers of the unit tests (decode_internal.rs, lines 147, 169, 180, 191),
\* extended; the others hold the forms of the length determinants.
Seeds ==
    { <<112, 0, 0, 0, 129, 0, 1, 2>>,
      <<128, 112, 0, 0, 133, 191, 1, 2>>,
      <<0, 112, 0, 1, 132, 0, 1, 2>>,
      <<0, 120, 1, 1, 1, 2, 193, 5>>,
      <<130, 193, 3, 128, 133, 1, 255, 132>>,
      <<255, 255, 255, 255, 255, 255, 255, 255>>,
      <<3, 1, 2, 3, 2, 171, 205, 0>>,
      <<5, 200, 1, 2, 3, 4, 5, 6>> }

Buffers == { <<>> } \cup { SubSeq(s, 1, MaxBytes) : s \in Seeds }

\* (lb, ub) of the constrained whole numbers: every boundary of the table of
\* bit widths, both sides of 256 and of 65536, and two empty ranges.
TableRanges == {1, 2, 3, 4, 5, 8, 9, 16, 17, 32, 33, 64, 65, 128, 129, 255}

WholeNumberBounds ==
    { <<0, r - 1>> : r \in TableRanges }
    \cup { <<14, 14>>, <<7, 14>>, <<-3, 4>>, <<10, 5>>, <<5, 4>>,
           <<0, 255>>, <<-128, 127>>, <<0, 256>>, <<0, 64000>>, <<1, 65535>>,
           <<0, 65535>>, <<1, 65536>>, <<0, 16777214>>, <<0, 16777215>>,
           <<0, 20000000>>, <<-5, 70000>> }

\* (lb, ub) of the constrained lengths (usize)
LengthBounds ==
    { <<1, 1>>, <<1, 3>>, <<0, 255>>, <<1, 65535>>, <<1, 65536>>,
      <<0, 70000>>, <<5, 4>>, <<10, 5>> }

LowerBounds == {0, 14}

AdvanceBits == {1, 4, 12}

Lengths == 0..SmallRun \cup {255, 1000, 16383, 16384, 16385, 32768, 40000,
                             49152, 65536, 65537, 81920, 100000, 2097151}

(***************************************************************************)
(* The state machine: a cursor over a byte slice and the calls made on it. *)
(***************************************************************************)
Call(op, lb, ub, start, r) ==
    [op |-> op, lb |-> lb, ub |-> ub, start |-> start,
     kind |-> r.kind, err |-> r.err, val |-> r.val, calls |-> r.calls]

NoCall == Call("none", 0, 0, 0, Ok(0, Zero))

\* AperCodecData::from_slice
Init ==
    /\ bits \in Buffers
    /\ offset = 0
    /\ last = NoCall
    /\ panicked = FALSE
    /\ source = -1

\* one call: the cursor is left where the call left it; a panic ends the run
Return(op, lb, ub, r) ==
    /\ ~panicked
    /\ offset' = r.off
    /\ last' = Call(op, lb, ub, offset, r)
    /\ panicked' = (r.kind = "panic")
    /\ UNCHANGED <<bits, source>>

\* the build's overflow checks decide a call's outcome only when ub < lb
BuildChecks(b) == IF b[2] < b[1] THEN BOOLEAN ELSE {TRUE}

NormallySmallLength ==
    Return("normally_small_length", 0, 0,
           decode_normally_small_length_determinent(bits, offset))

ConstrainedLength ==
    \E b \in LengthBounds : \E checks \in BuildChecks(b) :
        Return("constrained_length", b[1], b[2],
               decode_constrained_length_detereminent(bits, offset, b[1], b[2], checks))

UnconstrainedLength ==
    Return("unconstrained_length", 0, 0,
           decode_unconstrained_length_determinent(bits, offset))

UnconstrainedWholeNumber ==
    Return("unconstrained_whole_number", 0, 0,
           decode_unconstrained_whole_number(bits, offset))

SemiConstrainedWholeNumber ==
    \E lb \in LowerBounds :
        Return("semi_constrained_whole_number", lb, 0,
               decode_semi_constrained_whole_number(bits, offset, lb))

ConstrainedWholeNumber ==
    \E b \in WholeNumberBounds :
        Return("constrained_whole_number", b[1], b[2],
               decode_constrained_whole_number(bits, offset, b[1], b[2]))

Align == Return("align", 0, 0, decode_align(bits, offset))

\* lb holds the number of bits, ub is 1 when the advance must succeed
Advance ==
    \E n \in AdvanceBits, must_succeed \in BOOLEAN :
        Return("advance", n, IF must_succeed THEN 1 ELSE 0,
               advance_maybe_err(bits, offset, n, must_succeed))

Next ==
    \/ NormallySmallLength
    \/ ConstrainedLength
    \/ UnconstrainedLength
    \/ UnconstrainedWholeNumber
    \/ SemiConstrainedWholeNumber
    \/ ConstrainedWholeNumber
    \/ Align
    \/ Advance

Spec == Init /\ [][Next]_vars

(***************************************************************************)
(* The round trip of the unconstrained length determinant: the buffer is   *)
(* the encoding of a length, and it is decoded from its start.             *)
(***************************************************************************)
InitRT ==
    /\ source \in Lengths
    /\ bits = encode_unconstrained_length_determinent(source)
    /\ offset = 0
    /\ last = NoCall
    /\ panicked = FALSE

NextRT == last.op = "none" /\ UnconstrainedLength

SpecRT == InitRT /\ [][NextRT]_vars

TypeOK ==
    /\ offset \in 0..bit_length(bits)
    /\ panicked \in BOOLEAN

(***************************************************************************)
(* What the specification expects of a call, stated from the buffer alone. *)
(***************************************************************************)
Range(c) == c.ub - c.lb + 1

\* the next multiple of 8 from p on
Aligned(p) == p + ((8 - (p % 8)) % 8)

\* ceil(log2(r)): the least b with 2^b >= r, for 1 <= r <= 256
CeilLog2(r) == CHOOSE b \in 0..8 : 2^b >= r /\ (b = 0 \/ 2^(b - 1) < r)

\* 128 - leading_zero_count(r): the least k with r < 2^k, for 1 <= r < 2^30
SignificantBits(r) == CHOOSE k \in 1..30 : 2^(k - 1) <= r /\ r < 2^k

Fits(p, n) == p + n <= bit_length(bits)

\* lb plus the n bits at p, read as an unsigned MSB-first integer
Unsigned(p, n, lb) == AddInt(load_be(bits, p, n), lb)

Expect(kind, err, off, val) == [kind |-> kind, err |-> err, off |-> off, val |-> val]

Short == Expect("err", OutOfBits, 0, Zero)

\* the last call returned what is expected; the cursor is compared on success
Returned(e) ==
    /\ last.kind = e.kind
    /\ last.err = e.err
    /\ e.kind = "ok" => offset = e.off /\ last.val = e.val

IsCall(op) == last.op = op

\* a constrained whole number of range 1 .. 255 from start
ExpectBits(lb, ub, start) ==
    LET b == CeilLog2(ub - lb + 1) IN
    IF Fits(start, b) THEN Expect("ok", "", start + b, Unsigned(start, b, lb))
    ELSE Short

\* a constrained whole number of range 256 .. 65535 from start
ExpectOctets(lb, ub, start) ==
    LET a == Aligned(start)
        w == IF ub - lb + 1 = 256 THEN 8 ELSE 16
    IN  IF Fits(a, w) THEN Expect("ok", "", a + w, Unsigned(a, w, lb))
        ELSE Short

\* a constrained whole number of range >= 65536 from start
ExpectIndefinite(lb, ub, start) ==
    LET bytes_needed == (SignificantBits(ub - lb + 1) + 7) \div 8
        w == CeilLog2(bytes_needed)
    IN  IF ~Fits(start, w) THEN Short ELSE
        LET length == 1 + BitsAt(bits, start, w)
            a == Aligned(start + w)
            n == (length + 1) * 8
        IN  IF Fits(a, n) THEN Expect("ok", "", a + n, Unsigned(a, n, lb))
            ELSE Short

\* an unconstrained length determinant from start
ExpectUnconstrainedLength(start) ==
    LET a == Aligned(start) IN
    IF ~Fits(a, 1) THEN Short
    ELSE IF BitAt(bits, a) = 0
         THEN Expect("ok", "", a + 8, FromInt(BitsAt(bits, a + 1, 7)))
    ELSE IF BitAt(bits, a + 1) = 1
         THEN IF Fits(a, 16)
              THEN Expect("ok", "", a + 16, FromInt(BitsAt(bits, a + 2, 14)))
              ELSE Short
    ELSE LET m == BitsAt(bits, a + 2, 6) IN
         IF m \in 1..4 THEN Expect("ok", "", a + 8, FromInt(m * 16384))
         ELSE Expect("err", InvalidLengthMultiplier, 0, Zero)

(***************************************************************************)
(* The claims.                                                             *)
(***************************************************************************)
UnsupportedRange == "UnsupportedRange"

\* C1 (as claimed): a constrained length of range >= 65536 returns the typed
\* error UnsupportedRange to its caller and the process goes on.
C1_UnsupportedRangeIsAnError ==
    IsCall("constrained_length") /\ Range(last) >= 65536
        => last.kind = "err" /\ last.err = UnsupportedRange /\ ~panicked

\* C2: a constrained whole number of range <= 0 fails with InvalidRange and
\* leaves the cursor where it was.
C2_InvalidRangeReadsNothing ==
    IsCall("constrained_whole_number") /\ Range(last) <= 0
        => last.kind = "err" /\ last.err = InvalidRange /\ offset = last.start

C2_Witness ==
    /\ IsCall("constrained_whole_number")
    /\ last.lb = 10 /\ last.ub = 5
    /\ last.start = 13
    /\ last.err = InvalidRange

\* C3: a constrained whole number of range 1 .. 255 is read without
\* alignment from ceil(log2(range)) bits at the cursor, which moves by as
\* many bits; the result is lb plus those bits as an unsigned MSB-first
\* integer (OutOfBits when the buffer has fewer bits left).
C3_BitFieldOfTableWidth ==
    IsCall("constrained_whole_number") /\ Range(last) \in 1..255
        => Returned(ExpectBits(last.lb, last.ub, last.start))

\* test_decode_constrained_whole_number_lt_256
C3_Witness ==
    /\ IsCall("constrained_whole_number")
    /\ Len(bits) >= 4 /\ SubSeq(bits, 1, 4) = <<112, 0, 0, 0>>
    /\ last.lb = 7 /\ last.ub = 14 /\ last.start = 1
    /\ last.kind = "ok" /\ last.val = FromInt(14) /\ offset = 4

\* C4: a constrained whole number of range 256 .. 65535 is read from the
\* next octet boundary: 8 bits for range 256 and 16 bits above it; the
\* result is lb plus the value read and the cursor ends after those bits.
C4_AlignedOctets ==
    IsCall("constrained_whole_number") /\ Range(last) \in 256..65535
        => Returned(ExpectOctets(last.lb, last.ub, last.start))

\* test_decode_constrained_whole_number_eq_256
C4_Witness ==
    /\ IsCall("constrained_whole_number")
    /\ Len(bits) >= 4 /\ SubSeq(bits, 1, 4) = <<128, 112, 0, 0>>
    /\ last.lb = 0 /\ last.ub = 255 /\ last.start = 1
    /\ last.kind = "ok" /\ last.val = FromInt(112) /\ offset = 16

\* C5: a constrained whole number of range >= 65536 reads, unaligned, a
\* constrained length in [1, bytes_needed] for bytes_needed the octets of
\* 128 - leading_zero_count(range) bits, then aligns and reads
\* (length + 1) * 8 bits; the result is lb plus the value read.
C5_LengthThenOctets ==
    IsCall("constrained_whole_number") /\ Range(last) >= 65536
        => Returned(ExpectIndefinite(last.lb, last.ub, last.start))

\* test_decode_constrained_whole_number_gt_64k
C5_Witness ==
    /\ IsCall("constrained_whole_number")
    /\ Len(bits) >= 6 /\ SubSeq(bits, 1, 6) = <<0, 120, 1, 1, 1, 2>>
    /\ last.lb = 0 /\ last.ub = 20000000 /\ last.start = 12
    /\ last.kind = "ok" /\ last.val = FromInt(16843010) /\ offset = 48

\* C6: an unconstrained length is read from the next octet boundary a:
\* 0vvvvvvv gives the 7 bits and ends at a + 8, 11 and 14 bits give the 14
\* bits and end at a + 16, and 10mmmmmm, when it succeeds, gives m * 16384
\* and ends at a + 8.
C6_UnconstrainedLengthForms ==
    IsCall("unconstrained_length") =>
        LET a == Aligned(last.start) IN
        /\ offset >= a
        /\ Fits(a, 8) /\ BitAt(bits, a) = 0 =>
              /\ last.kind = "ok" /\ offset = a + 8
              /\ last.val = FromInt(BitsAt(bits, a + 1, 7))
              /\ ToInt(last.val) \in 0..127
        /\ Fits(a, 16) /\ BitAt(bits, a) = 1 /\ BitAt(bits, a + 1) = 1 =>
              /\ last.kind = "ok" /\ offset = a + 16
              /\ last.val = FromInt(BitsAt(bits, a + 2, 14))
              /\ ToInt(last.val) \in 0..16383
        /\ Fits(a, 8) /\ BitAt(bits, a) = 1 /\ BitAt(bits, a + 1) = 0
              /\ last.kind = "ok" =>
              /\ offset = a + 8
              /\ last.val = FromInt(BitsAt(bits, a + 2, 6) * 16384)

C6_Witness ==
    /\ IsCall("unconstrained_length")
    /\ last.start % 8 = 3
    /\ last.kind = "ok" /\ last.val = FromInt(259)
    /\ offset = Aligned(last.start) + 16

\* C7: in the form 10mmmmmm the call succeeds, with m * 16384, exactly when
\* 1 <= m <= 4, and fails with InvalidLengthMultiplier for every other m.
C7_MultiplierOneToFour ==
    IsCall("unconstrained_length") =>
        LET a == Aligned(last.start) IN
        Fits(a, 8) /\ BitAt(bits, a) = 1 /\ BitAt(bits, a + 1) = 0 =>
            LET m == BitsAt(bits, a + 2, 6) IN
            IF m \in 1..4
            THEN last.kind = "ok" /\ last.val = FromInt(m * 16384)
            ELSE last.kind = "err" /\ last.err = InvalidLengthMultiplier

C7_Witness ==
    /\ IsCall("unconstrained_length")
    /\ Fits(Aligned(last.start), 8)
    /\ BitsAt(bits, Aligned(last.start), 8) = 128
    /\ last.kind = "err" /\ last.err = InvalidLengthMultiplier

OneDeterminant(L) == L \in 0..16383 \/ L \in { m * 16384 : m \in 1..4 }

\* C9 (as claimed): every length 0 <= L < 2^21, encoded and decoded again,
\* comes back as L.
C9_RoundTripBelowTwoToThe21 ==
    IsCall("unconstrained_length") /\ source \in 0..(2^21 - 1)
        => last.kind = "ok" /\ last.val = FromInt(source)

\* C9 (amended): every length below 16384, and 16384 * m for 1 <= m <= 4,
\* encoded and decoded again, comes back as it was.
C9_RoundTripOfOneDeterminant ==
    IsCall("unconstrained_length") /\ source >= 0 /\ OneDeterminant(source)
        => last.kind = "ok" /\ last.val = FromInt(source)

C9_Witness ==
    /\ IsCall("unconstrained_length")
    /\ source = 16383 /\ bits = <<255, 255>>
    /\ last.kind = "ok" /\ last.val = FromInt(16383) /\ offset = 16

\* a normally small length from start
ExpectNormallySmall(start) ==
    IF ~Fits(start, 1) THEN Short
    ELSE IF BitAt(bits, start) = 1 THEN ExpectUnconstrainedLength(start + 1)
    ELSE IF Fits(start, 7)
         THEN Expect("ok", "", start + 7, FromInt(BitsAt(bits, start + 1, 6) + 1))
         ELSE Short

\* a semi-constrained whole number from start (unconstrained: lb = 0)
ExpectOctetString(lb, start) ==
    LET length == ExpectUnconstrainedLength(start) IN
    IF length.kind # "ok" THEN length ELSE
    LET n == 8 * ToInt(length.val) IN
    IF Fits(length.off, n)
    THEN Expect("ok", "", length.off + n, Unsigned(length.off, n, lb))
    ELSE Short

ExpectConstrained(lb, ub, start) ==
    IF ub - lb + 1 < 256 THEN ExpectBits(lb, ub, start)
    ELSE IF ub - lb + 1 < 65536 THEN ExpectOctets(lb, ub, start)
    ELSE ExpectIndefinite(lb, ub, start)

ExpectAdvance(n, must_succeed, start) ==
    IF Fits(start, n) THEN Expect("ok", "", start + n, Zero)
    ELSE IF must_succeed THEN Short
    ELSE Expect("ok", "", bit_length(bits), Zero)

\* the calls that read the buffer: all but the constrained ones of an empty
\* range and the constrained length of a range >= 65536
Reads(c) ==
    CASE c.op = "none" -> FALSE
      [] c.op = "constrained_whole_number" -> Range(c) >= 1
      [] c.op = "constrained_length" -> Range(c) \in 1..65535
      [] OTHER -> TRUE

Expected(c) ==
    CASE c.op = "normally_small_length" -> ExpectNormallySmall(c.start)
      [] c.op = "unconstrained_length" -> ExpectUnconstrainedLength(c.start)
      [] c.op = "unconstrained_whole_number" -> ExpectOctetString(0, c.start)
      [] c.op = "semi_constrained_whole_number" -> ExpectOctetString(c.lb, c.start)
      [] c.op = "constrained_whole_number" -> ExpectConstrained(c.lb, c.ub, c.start)
      [] c.op = "constrained_length" -> ExpectConstrained(c.lb, c.ub, c.start)
      [] c.op = "align" -> Expect("ok", "", Aligned(c.start), Zero)
      [] c.op = "advance" -> ExpectAdvance(c.lb, c.ub = 1, c.start)

\* C10: between calls 0 <= bit_position <= bit_length, no call moves the
\* cursor back, and a call that needs more bits than remain fails with
\* OutOfBits: a call succeeds only with the whole of its value read.
C10_CursorInBoundsAndForward ==
    /\ [](offset \in 0..bit_length(bits))
    /\ [][offset' >= offset]_vars
    /\ [](Reads(last) => Returned(Expected(last)))

\* the length octet announces more octets than the 32 bits left can hold
C10_Witness ==
    /\ IsCall("unconstrained_whole_number")
    /\ last.start = 4
    /\ offset = 16
    /\ bit_length(bits) - offset = 32
    /\ last.kind = "err" /\ last.err = OutOfBits

Frame(fn, lb, ub) == [fn |-> fn, lb |-> lb, ub |-> ub]

\* C11: a call of decode_constrained_whole_number returns after at most one
\* nested call of itself: below range 65536 it calls neither function; from
\* 65536 on it calls decode_constrained_length_detereminent(1, bytes_needed)
\* with bytes_needed < 256, which calls it once more, in the branch of range
\* < 256, and nothing else.  unimplemented!() is never reached.
C11_RecursionBottomsOut ==
    IsCall("constrained_whole_number") =>
        LET c == last.calls IN
        /\ last.kind # "panic" /\ ~panicked
        /\ Len(c) >= 1
        /\ c[1] = Frame("constrained_whole_number", last.lb, last.ub)
        /\ IF Range(last) >= 65536
           THEN /\ Len(c) = 3
                /\ c[2].fn = "constrained_length"
                /\ c[2].lb = 1
                /\ c[2].ub = (SignificantBits(Range(last)) + 7) \div 8
                /\ c[2].ub < 256
                /\ c[3] = Frame("constrained_whole_number", 1, c[2].ub)
           ELSE Len(c) = 1

C11_Witness ==
    /\ IsCall("constrained_whole_number")
    /\ last.lb = 0 /\ last.ub = 20000000
    /\ last.kind = "ok"
    /\ last.calls = << Frame("constrained_whole_number", 0, 20000000),
                       Frame("constrained_length", 1, 4),
                       Frame("constrained_whole_number", 1, 4) >>

\* lb <= v <= ub, for a value v in limbs and small lb and ub
Within(v, lb, ub) ==
    /\ AddInt(v, -lb).hi >= 0
    /\ AddInt(v, -ub).hi < 0 \/ AddInt(v, -ub) = Zero

\* C12 (as claimed): a constrained whole number, and so a constrained
\* length, that is decoded successfully lies within [lb, ub].
C12_ValueWithinBounds ==
    /\ IsCall("constrained_whole_number") \/ IsCall("constrained_length")
    /\ last.kind = "ok"
    => Within(last.val, last.lb, last.ub)

====
